---- MODULE Spec2Model ----
(***************************************************************************)
(* The populate_cbv management command of ccbv                             *)
(* (src/cbv/management/commands/populate_cbv.py): InspectCodeImporter      *)
(* walks the members of the configured root modules and yields Module,     *)
(* Klass, Method and KlassAttribute records; DBStorage consumes the        *)
(* generator record by record, writes rows, and finishes with              *)
(* create_inheritance and create_attributes.                               *)
(*                                                                         *)
(* Python strings the code cuts or compares by prefix (module paths,       *)
(* project names, attribute values) are sequences of characters.  Python   *)
(* objects (modules, classes, functions, values) are named by TLA+ strings *)
(* and described by the operators of the "runtime" section, which depend   *)
(* on the world w chosen in Init.                                          *)
(***************************************************************************)
EXTENDS Integers, Sequences, FiniteSets, TLC

VARIABLES
    w,        \* the loaded runtime: which modules, members, bases, bodies
    budget,   \* how many times the command is run in this behaviour
    runs,     \* how many runs were started
    db,       \* the relational store: one set of rows per table
    nextId,   \* the store's primary-key sequence
    phase,    \* "idle" | "walking" | "done" | "failed"
    error,    \* the exception that ended the run, or "none"
    args,     \* project_name / project_version of the current run
    sink,     \* the locals of import_project_version
    rootIdx,  \* process_modules: index of the next imported root
    stack,    \* the nested _process_submembers loops (one frame per loop)
    stream,   \* history: the records yielded so far in the current run
    hist      \* history: per finished run, its arguments and the rows it left

vars == <<w, budget, runs, db, nextId, phase, error, args, sink, rootIdx,
          stack, stream, hist>>

(***************************************************************************)
(* Bounds                                                                  *)
(***************************************************************************)
\* Interpreter recursion limit, counted in nested _process_submembers loops.
\* The deepest nesting of an acyclic module graph of this runtime is 4
\* (p, p.a, p.a.b, a class), so only an unbounded descent exceeds it.
RecursionLimit == 5

\* Number of successive runs of the command in SpecReimport.
MaxRuns == 3

(***************************************************************************)
(* Strings                                                                 *)
(***************************************************************************)
InSeq(x, s) == \E i \in 1..Len(s) : s[i] = x

\* str.startswith
StartsWith(s, prefix) ==
    /\ Len(prefix) <= Len(s)
    /\ SubSeq(s, 1, Len(prefix)) = prefix

\* str.rpartition(".")[0]: what precedes the last dot, "" when there is none
RPartitionHead(s) ==
    LET dots == {i \in 1..Len(s) : s[i] = "."}
    IN IF dots = {} THEN <<>>
       ELSE SubSeq(s, 1, (CHOOSE i \in dots : \A j \in dots : j <= i) - 1)

\* str.lower, on the alphabet of the project names used here
LowerChar(c) == IF c = "D" THEN "d" ELSE IF c = "J" THEN "j" ELSE c
Lower(s) == [i \in 1..Len(s) |-> LowerChar(s[i])]

\* the __iexact lookup of the ORM: case-insensitive equality
IExact(a, b) == Lower(a) = Lower(b)

P   == <<"p">>
PA  == <<"p", ".", "a">>
PAB == <<"p", ".", "a", ".", "b">>
Q   == <<"q">>
Z   == <<"z">>
BUILTINS == <<"b", "u", "i", "l", "t", "i", "n", "s">>

(***************************************************************************)
(* The runtime: what importlib and inspect report about the loaded code.   *)
(* Four modules (package p, p.a, p.a.b, and q outside the package), the    *)
(* classes A, B, C (defined in p.a), V (in p.a.b), U (in q, a subclass of  *)
(* A), and their members.  The world w fixes what varies.                  *)
(***************************************************************************)
Opt(cond, s) == IF cond THEN s ELSE <<>>

ModuleObjects == {"mod_p", "mod_pa", "mod_pab", "mod_q"}
Classes == {"A", "B", "C", "U", "V"}
FunctionObjects == {"m", "n", "n_deco", "g", "f", "v"}

\* inspect.isbuiltin / ismodule / isclass / isfunction, isinstance(_, Promise),
\* isinstance(_, str)
Kind(o) ==
    CASE o \in ModuleObjects -> "module"
      [] o \in Classes \cup {"object"} -> "class"
      [] o \in FunctionObjects -> "function"
      [] o = "len" -> "builtin"
      [] o = "lazy" -> "promise"
      [] o \in {"str_s", "str_mod", "doc"} -> "str"
      [] OTHER -> "other"

\* module.__name__
ModuleName(o) ==
    CASE o = "mod_p" -> P
      [] o = "mod_pa" -> PA
      [] o = "mod_pab" -> PAB
      [] o = "mod_q" -> Q

\* importlib.import_module: the module of that name, "ImportError" if none
ImportModule(name) ==
    IF \E o \in ModuleObjects : ModuleName(o) = name
    THEN CHOOSE o \in ModuleObjects : ModuleName(o) = name
    ELSE "ImportError"

\* the file a module was loaded from
ModuleFile(o) ==
    CASE o = "mod_p" -> "p/__init__.py"
      [] o = "mod_pa" -> "p/a/__init__.py"
      [] o = "mod_pab" -> "p/a/b.py"
      [] o = "mod_q" -> "q.py"

\* klass.__name__ and klass.__module__
ClassName(c) == c
ClassModule(c) ==
    CASE c \in {"A", "B", "C"} -> PA
      [] c = "V" -> PAB
      [] c = "U" -> Q
      [] c = "object" -> BUILTINS

\* klass.__bases__
Bases(world, c) ==
    CASE c = "A" -> <<"object">>
      [] c = "B" -> world.basesB
      [] c = "C" -> world.basesC
      [] c = "U" -> <<"A">>
      [] c = "V" -> <<"object">>
      [] c = "object" -> <<>>

\* Where the monkey-patched function g of class B sits: inside B's block,
\* on the line right after it, further down, or in another file.
GPlace(world) ==
    CASE world.g = "in_block" -> [file |-> "p/a/__init__.py", line |-> 6]
      [] world.g = "after_block" -> [file |-> "p/a/__init__.py", line |-> 7]
      [] world.g = "later" -> [file |-> "p/a/__init__.py", line |-> 8]
      [] OTHER -> [file |-> "q.py", line |-> 5]

\* inspect.getsourcefile and inspect.getsourcelines (start line, line count).
\* A class's file is the file of the module its __module__ names; a
\* function's is that of its code object.
Source(world, o) ==
    CASE o \in ModuleObjects -> [file |-> ModuleFile(o), start |-> 1, count |-> 20]
      [] o = "A" -> [file |-> ModuleFile(ImportModule(ClassModule(o))), start |-> 1, count |-> 3]
      [] o = "B" -> [file |-> ModuleFile(ImportModule(ClassModule(o))), start |-> 4, count |-> 3]
      [] o = "C" -> [file |-> ModuleFile(ImportModule(ClassModule(o))), start |-> 9, count |-> 2]
      [] o = "U" -> [file |-> ModuleFile(ImportModule(ClassModule(o))), start |-> 1, count |-> 2]
      [] o = "V" -> [file |-> ModuleFile(ImportModule(ClassModule(o))), start |-> 1, count |-> 3]
      [] o = "m" -> [file |-> "p/a/__init__.py", start |-> 2, count |-> 1]
      [] o = "n" -> [file |-> "p/a/__init__.py", start |-> 5, count |-> 1]
      [] o = "n_deco" -> [file |-> "q.py", start |-> 20, count |-> 3]
      [] o = "g" -> [file |-> GPlace(world).file, start |-> GPlace(world).line, count |-> 1]
      [] o = "f" -> [file |-> "p/a/__init__.py", start |-> 12, count |-> 2]
      [] o = "v" -> [file |-> "p/a/b.py", start |-> 2, count |-> 1]

\* getattr(member, "__wrapped__", None)
Wrapped(o) == IF o = "n_deco" THEN "n" ELSE "None"

\* The class's own namespace (what its body, or a later assignment, put there)
OwnAttr(world, c, name) ==
    CASE name = "__doc__" -> "doc"
      [] name = "__module__" /\ c # "object" -> "str_mod"
      [] name = "__init__" /\ c = "object" -> "slot_init"
      [] name = "x" /\ c = "A" -> world.xA
      [] name = "x" /\ c = "B" -> world.xB
      [] name = "x" /\ c = "C" -> world.xC
      [] name = "t" /\ c = world.lazyOn -> "lazy"
      [] name = "m" /\ c = "A" -> "m"
      [] name = "n" /\ c = "B" -> "n_deco"
      [] name = "g" /\ c = "B" /\ world.g # "none" -> "g"
      [] name = "v" /\ c = "V" -> "v"
      [] name = "y" /\ c = "V" -> "str_s"
      [] OTHER -> "absent"

\* object.__dict__.values()
ObjectDictValues == {"slot_init", "doc_object"}

\* The C3 merge of Python's method resolution order
RECURSIVE Merge(_)
Merge(seqs) ==
    LET live == SelectSeq(seqs, LAMBDA s : s # <<>>)
    IN IF live = <<>> THEN <<>>
       ELSE LET good(h) == \A j \in 1..Len(live) : ~InSeq(h, Tail(live[j]))
                idx == CHOOSE i \in 1..Len(live) :
                           /\ good(Head(live[i]))
                           /\ \A k \in 1..(i - 1) : ~good(Head(live[k]))
                h == Head(live[idx])
            IN <<h>> \o Merge([j \in 1..Len(live) |->
                                  SelectSeq(live[j], LAMBDA x : x # h)])

\* klass.__mro__
RECURSIVE Mro(_, _)
Mro(world, c) ==
    LET bs == Bases(world, c)
    IN <<c>> \o Merge([i \in 1..Len(bs) |-> Mro(world, bs[i])] \o <<bs>>)

\* getattr(klass, name): the first definition along the MRO
RECURSIVE FirstDefined(_, _, _)
FirstDefined(world, mro, name) ==
    IF mro = <<>> THEN "absent"
    ELSE IF OwnAttr(world, Head(mro), name) # "absent"
         THEN OwnAttr(world, Head(mro), name)
         ELSE FirstDefined(world, Tail(mro), name)

ClassGetattr(world, c, name) == FirstDefined(world, Mro(world, c), name)

\* every attribute name of this runtime, in the order sorted() gives
NameOrder == <<"__doc__", "__init__", "__module__", "g", "m", "n", "t", "v", "x", "y">>

\* inspect.getmembers(parent): (name, value) pairs sorted by name.  For a
\* class this is the MRO-merged namespace, inherited members included.
Members(world, o) ==
    CASE o = "mod_p" ->
            Opt(world.expP = "class", << <<"V", "V">> >>)
         \o Opt(world.expP = "other", << <<"V", "int2">> >>)
         \o << <<"a", "mod_pa">> >>
         \o Opt("p_pab" \in world.edges, << <<"ab", "mod_pab">> >>)
      [] o = "mod_pa" ->
            << <<"A", "A">> >>
         \o Opt(world.alias, << <<"Alias", "A">> >>)
         \o << <<"B", "B">>, <<"C", "C">>, <<"CONST", "int1">>, <<"U", "U">> >>
         \o Opt(world.expA = "class", << <<"V", "V">> >>)
         \o Opt(world.expA = "other", << <<"V", "int2">> >>)
         \o << <<"b", "mod_pab">>, <<"f", "f">>, <<"len", "len">> >>
         \o Opt("pa_p" \in world.edges, << <<"p", "mod_p">> >>)
         \o Opt("pa_q" \in world.edges, << <<"q", "mod_q">> >>)
      [] o = "mod_pab" ->
            (IF world.rename THEN << <<"W", "V">> >> ELSE << <<"V", "V">> >>)
         \o Opt("pab_p" \in world.edges, << <<"p", "mod_p">> >>)
      [] o = "mod_q" -> << <<"A", "A">>, <<"U", "U">> >>
      [] o \in Classes ->
            LET present == SelectSeq(NameOrder,
                               LAMBDA nm : ClassGetattr(world, o, nm) # "absent")
            IN [i \in 1..Len(present) |->
                   <<present[i], ClassGetattr(world, o, present[i])>>]
      [] OTHER -> <<>>

\* getattr(module, name, None)
ModuleGetattr(world, mod, name) ==
    LET ms == Members(world, mod)
    IN IF \E i \in 1..Len(ms) : ms[i][1] = name
       THEN ms[CHOOSE i \in 1..Len(ms) : ms[i][1] = name][2]
       ELSE "None"

(***************************************************************************)
(* The importer's helpers                                                  *)
(***************************************************************************)
\* _full_path: f"{klass.__module__}.{klass.__name__}"
FullPath(c) == ClassModule(c) \o <<".">> \o <<ClassName(c)>>

\* The variant of the loop that breaks at the first prefix whose module
\* does not hold the class.
RECURSIVE BestPathLoopBreak(_, _, _, _)
BestPathLoopBreak(world, klass, module_path, best_path) ==
    LET shorter == RPartitionHead(module_path)
        module == ImportModule(shorter)
    IN IF shorter = <<>> THEN best_path
       ELSE IF ModuleGetattr(world, module, ClassName(klass)) = klass
            THEN BestPathLoopBreak(world, klass, shorter, shorter)
            ELSE best_path

\* The variant of the loop that takes every prefix without comparing the
\* module's attribute with the class.
RECURSIVE BestPathLoopNoCheck(_, _, _, _)
BestPathLoopNoCheck(world, klass, module_path, best_path) ==
    LET shorter == RPartitionHead(module_path)
    IN IF shorter = <<>> THEN best_path
       ELSE BestPathLoopNoCheck(world, klass, shorter, shorter)

\* The loop of _get_best_import_path_for_class, one iteration per call:
\* strip the last dotted component; stop when nothing is left; a prefix whose
\* module holds the class under its own name becomes the best path; the
\* loop goes on to the shorter prefixes either way.
RECURSIVE BestPathLoop(_, _, _, _)
BestPathLoop(world, klass, module_path, best_path) ==
    LET shorter == RPartitionHead(module_path)
        module == ImportModule(shorter)
    IN IF shorter = <<>> THEN best_path
       ELSE BestPathLoop(world, klass, shorter,
                IF ModuleGetattr(world, module, ClassName(klass)) = klass
                THEN shorter ELSE best_path)

\* _get_best_import_path_for_class
GetBestImportPathForClass(world, klass) ==
    BestPathLoop(world, klass, ClassModule(klass), ClassModule(klass))

\* the "Decoration" loop of _handle_function_or_method
RECURSIVE Unwrap(_)
Unwrap(member) ==
    IF Wrapped(member) # "None" THEN Unwrap(Wrapped(member)) ELSE member

\* ok_to_add_method
OkToAddMethod(world, member, parent) ==
    LET start_line == Source(world, member).start
        parent_start_line == Source(world, parent).start
        parent_lines == Source(world, parent).count
    IN IF Source(world, member).file # Source(world, parent).file THEN FALSE
       ELSE IF Kind(parent) # "class" THEN FALSE
       ELSE IF \/ start_line < parent_start_line
               \/ start_line > parent_start_line + parent_lines THEN FALSE
       ELSE TRUE

BANNED_ATTR_NAMES ==
    {"__all__", "__builtins__", "__class__", "__dict__", "__doc__", "__file__",
     "__module__", "__name__", "__package__", "__path__", "__spec__",
     "__weakref__"}

\* ok_to_add_attribute
OkToAddAttribute(member, member_name, parent) ==
    IF Kind(parent) = "class" /\ member \in ObjectDictValues THEN FALSE
    ELSE IF member_name \in BANNED_ATTR_NAMES THEN FALSE
    ELSE TRUE

\* LazyAttribute.functions
LazyFunctions ==
    [f \in {"gettext", "reverse", "ugettext"} |->
        CASE f = "gettext" -> "gettext_lazy"
          [] f = "reverse" -> "reverse_lazy"
          [] f = "ugettext" -> "ugettext_lazy"]

\* promise.__reduce__()[1]: the wrapped function and its arguments
PromiseReduce(world) == [func |-> world.lazyFunc, args |-> <<"str_s">>]

\* The default text of a value: str(member)
TextOf(o) ==
    CASE o = "int1" -> <<"1">>
      [] o = "int2" -> <<"2">>
      [] o = "str_s" -> <<"s">>
      [] OTHER -> <<o>>

\* LazyAttribute.__repr__ for positional arguments: strings quoted, joined
\* with ", ", wrapped in lazy_func(...)
RECURSIVE JoinArgs(_)
JoinArgs(as) ==
    IF as = <<>> THEN <<>>
    ELSE (IF Kind(Head(as)) = "str"
          THEN <<"'">> \o TextOf(Head(as)) \o <<"'">>
          ELSE TextOf(Head(as)))
         \o (IF Tail(as) = <<>> THEN <<>> ELSE <<",", " ">> \o JoinArgs(Tail(as)))

LazyAttributeRepr(world) ==
    <<LazyFunctions[PromiseReduce(world).func]>> \o <<"(">>
        \o JoinArgs(PromiseReduce(world).args) \o <<")">>

\* get_value, of a member that _handle_class_attribute may have replaced by
\* a LazyAttribute
GetValue(world, member) ==
    IF Kind(member) = "str" THEN <<"'">> \o TextOf(member) \o <<"'">>
    ELSE IF Kind(member) = "promise" THEN LazyAttributeRepr(world)
    ELSE TextOf(member)

\* get_line_number: the start line, -1 when inspect raises TypeError
GetLineNumber(world, member) ==
    IF Kind(member) \in {"class", "function", "module"} /\ member # "object"
    THEN Source(world, member).start
    ELSE -1

(***************************************************************************)
(* The store.  A row is a record with its primary key id; a foreign key    *)
(* holds the id of the row it points to.  Fields the command only copies   *)
(* (docstring, filename, code, kwargs) are left out.                       *)
(***************************************************************************)
EmptyDb ==
    [Project |-> {}, ProjectVersion |-> {}, Module |-> {}, Klass |-> {},
     Method |-> {}, KlassAttribute |-> {}, Inheritance |-> {}]

RowById(table, id) == CHOOSE r \in table : r.id = id

\* rows[i] saved with primary key first + i - 1 (objects.bulk_create)
BulkCreate(rows, first) ==
    {[id |-> first + i - 1] @@ rows[i] : i \in 1..Len(rows)}

\* The ProjectVersion rows a filter on (project__name__iexact, version_number)
\* selects
VersionsOf(d, project_name, project_version) ==
    {v \in d.ProjectVersion :
        /\ IExact(RowById(d.Project, v.project).name, project_name)
        /\ v.version_number = project_version}

\* QuerySet.delete() of ProjectVersion rows: the delete cascades along the
\* foreign keys to Module, Klass, Method, KlassAttribute and Inheritance
CascadeDelete(d, pvs) ==
    LET pv == {v.id : v \in pvs}
        mods == {r.id : r \in {r \in d.Module : r.project_version \in pv}}
        kls == {r.id : r \in {r \in d.Klass : r.module \in mods}}
    IN [d EXCEPT
          !.ProjectVersion = {r \in @ : r.id \notin pv},
          !.Module = {r \in @ : r.id \notin mods},
          !.Klass = {r \in @ : r.id \notin kls},
          !.Method = {r \in @ : r.klass \notin kls},
          !.KlassAttribute = {r \in @ : r.klass \notin kls},
          !.Inheritance = {r \in @ : r.parent \notin kls /\ r.child \notin kls}]

\* A wipe that compares the project name exactly.
WipeClashingDataExact(d, project_name, project_version) ==
    CascadeDelete(d, {v \in d.ProjectVersion :
        /\ RowById(d.Project, v.project).name = project_name
        /\ v.version_number = project_version})

\* DBStorage._wipe_clashing_data
WipeClashingData(d, project_name, project_version) ==
    LET d1 == CascadeDelete(d, VersionsOf(d, project_name, project_version))
        clash(e) ==
            LET parent == RowById(d1.Klass, e.parent)
                module == RowById(d1.Module, parent.module)
                version == RowById(d1.ProjectVersion, module.project_version)
            IN /\ IExact(RowById(d1.Project, version.project).name, project_name)
               /\ version.version_number = project_version
    IN [d1 EXCEPT !.Inheritance = {e \in @ : ~clash(e)}]

\* Klass.get_children: the classes with an Inheritance row whose parent is k
GetChildren(k, inh) == {e.child : e \in {e \in inh : e.parent = k}}

\* Klass.get_all_children: children, their children, and so on
RECURSIVE GetAllChildren(_, _)
GetAllChildren(k, inh) ==
    GetChildren(k, inh)
        \cup UNION {GetAllChildren(c, inh) : c \in GetChildren(k, inh)}

(***************************************************************************)
(* The resolvers                                                           *)
(***************************************************************************)
\* create_inheritance: one Inheritance per (class, position of a base that
\* is in klass_lookup), in the order of the two loops
RECURSIVE CreateInheritance(_, _)
CreateInheritance(klasses, klass_lookup) ==
    IF klasses = <<>> THEN <<>>
    ELSE LET klass_data == Head(klasses)
             direct_ancestors == klass_data.bases
             known == SelectSeq([i \in 1..Len(direct_ancestors) |-> i],
                          LAMBDA i : direct_ancestors[i] \in DOMAIN klass_lookup)
         IN [j \in 1..Len(known) |->
                [parent |-> klass_lookup[direct_ancestors[known[j]]],
                 child |-> klass_lookup[klass_data.path],
                 order |-> known[j] - 1]]
            \o CreateInheritance(Tail(klasses), klass_lookup)

\* The keys of the attributes dict, in insertion order
RECURSIVE AttributeKeys(_)
AttributeKeys(cands) ==
    IF cands = <<>> THEN <<>>
    ELSE LET key == <<Head(cands).name, Head(cands).value>>
         IN <<key>> \o AttributeKeys(
                SelectSeq(Tail(cands), LAMBDA c : <<c.name, c.value>> # key))

\* attributes[(name, value)]: the (klass_path, line_number) list of a key
KlassesOf(cands, key) ==
    SelectSeq(cands, LAMBDA c : <<c.name, c.value>> = key)

\* create_attributes, "Find all the descendants of each Klass"
DescendantsOf(klasses, klass_lookup, inh) ==
    UNION {GetAllChildren(klass_lookup[klasses[i].klass_path], inh) :
              i \in 1..Len(klasses)}

\* A filter that removes nothing.
RemainingKlassesAll(klasses, klass_lookup, inh) == klasses

\* create_attributes, remaining_klasses
RemainingKlasses(klasses, klass_lookup, inh) ==
    SelectSeq(klasses,
        LAMBDA k_and_l : klass_lookup[k_and_l.klass_path]
                            \notin DescendantsOf(klasses, klass_lookup, inh))

\* create_attributes: the KlassAttribute models, key by key
RECURSIVE AttributeModels(_, _, _, _)
AttributeModels(keys, cands, klass_lookup, inh) ==
    IF keys = <<>> THEN <<>>
    ELSE LET remaining_klasses ==
                 RemainingKlasses(KlassesOf(cands, Head(keys)), klass_lookup, inh)
         IN [i \in 1..Len(remaining_klasses) |->
                [klass |-> klass_lookup[remaining_klasses[i].klass_path],
                 line_number |-> remaining_klasses[i].line_number,
                 name |-> Head(keys)[1],
                 value |-> Head(keys)[2]]]
            \o AttributeModels(Tail(keys), cands, klass_lookup, inh)

CreateAttributes(attributes, klass_lookup, inh) ==
    AttributeModels(AttributeKeys(attributes), attributes, klass_lookup, inh)

(***************************************************************************)
(* The records the importer yields (cbv.importer.dataclasses)              *)
(***************************************************************************)
ModuleRecord(module) == [type |-> "Module", name |-> ModuleName(module)]

KlassRecord(world, member) ==
    [type |-> "Klass",
     name |-> ClassName(member),
     module |-> ClassModule(member),
     line_number |-> GetLineNumber(world, member),
     path |-> FullPath(member),
     bases |-> [i \in 1..Len(Bases(world, member)) |->
                   FullPath(Bases(world, member)[i])],
     best_import_path |-> GetBestImportPathForClass(world, member)]

MethodRecord(world, member, member_name, parent) ==
    [type |-> "Method",
     name |-> member_name,
     line_number |-> Source(world, member).start,
     klass_path |-> FullPath(parent)]

KlassAttributeRecord(world, member, member_name, parent) ==
    [type |-> "KlassAttribute",
     name |-> member_name,
     value |-> GetValue(world, member),
     line_number |-> GetLineNumber(world, member),
     klass_path |-> FullPath(parent)]

(***************************************************************************)
(* The sink: the body of the "for member in members" loop of               *)
(* import_project_version, applied to one record.  The result names the    *)
(* store, the locals and the key sequence after it, and the exception a    *)
(* missing dictionary key raises.                                          *)
(***************************************************************************)
EmptySink(pv) ==
    [project_version |-> pv, klasses |-> <<>>, attributes |-> <<>>,
     klass_models |-> <<>>, module_models |-> <<>>, method_models |-> <<>>]

Unchanged == [db |-> db, sink |-> sink, nextId |-> nextId, error |-> "none"]

Consume(member) ==
    CASE member.type = "Module" ->
            [db |-> [db EXCEPT !.Module = @ \cup
                        {[id |-> nextId,
                          project_version |-> sink.project_version,
                          name |-> member.name]}],
             sink |-> [sink EXCEPT !.module_models = (member.name :> nextId) @@ @],
             nextId |-> nextId + 1,
             error |-> "none"]
      [] member.type = "KlassAttribute" ->
            [Unchanged EXCEPT !.sink =
                [sink EXCEPT !.attributes = Append(@,
                    [name |-> member.name, value |-> member.value,
                     klass_path |-> member.klass_path,
                     line_number |-> member.line_number])]]
      [] member.type = "Method" ->
            IF member.klass_path \notin DOMAIN sink.klass_models
            THEN [Unchanged EXCEPT !.error = "KeyError"]
            ELSE [Unchanged EXCEPT !.sink =
                    [sink EXCEPT !.method_models = Append(@,
                        [klass |-> sink.klass_models[member.klass_path],
                         name |-> member.name,
                         line_number |-> member.line_number])]]
      [] member.type = "Klass" ->
            IF member.module \notin DOMAIN sink.module_models
            THEN [Unchanged EXCEPT !.error = "KeyError"]
            ELSE [db |-> [db EXCEPT !.Klass = @ \cup
                            {[id |-> nextId,
                              module |-> sink.module_models[member.module],
                              name |-> member.name,
                              line_number |-> member.line_number,
                              import_path |-> member.best_import_path]}],
                  sink |-> [sink EXCEPT
                              !.klass_models = (member.path :> nextId) @@ @,
                              !.klasses = Append(@, member)],
                  nextId |-> nextId + 1,
                  error |-> "none"]

(***************************************************************************)
(* What a run left in the store for a (project name, version) pair, with   *)
(* the primary keys taken out: per table, how many rows carry each content *)
(***************************************************************************)
CountBy(content) ==
    [c \in {content[r] : r \in DOMAIN content} |->
        Cardinality({r \in DOMAIN content : content[r] = c})]

KlassContent(d, id) ==
    LET k == RowById(d.Klass, id)
    IN <<RowById(d.Module, k.module).name, k.name, k.line_number, k.import_path>>

PairRows(d, project_name, project_version) ==
    LET pv == {v.id : v \in VersionsOf(d, project_name, project_version)}
        mods == {r \in d.Module : r.project_version \in pv}
        kls == {r \in d.Klass : r.module \in {m.id : m \in mods}}
        ids == {k.id : k \in kls}
    IN [ProjectVersion |-> VersionsOf(d, project_name, project_version),
        Module |-> mods,
        Klass |-> kls,
        Method |-> {r \in d.Method : r.klass \in ids},
        KlassAttribute |-> {r \in d.KlassAttribute : r.klass \in ids},
        Inheritance |-> {r \in d.Inheritance : r.parent \in ids \/ r.child \in ids}]

PairContent(d, project_name, project_version) ==
    LET rows == PairRows(d, project_name, project_version)
    IN [versions |-> Cardinality(rows.ProjectVersion),
        Module |-> CountBy([r \in rows.Module |-> r.name]),
        Klass |-> CountBy([r \in rows.Klass |-> KlassContent(d, r.id)]),
        Method |-> CountBy([r \in rows.Method |->
            <<KlassContent(d, r.klass), r.name, r.line_number>>]),
        KlassAttribute |-> CountBy([r \in rows.KlassAttribute |->
            <<KlassContent(d, r.klass), r.name, r.value, r.line_number>>]),
        Inheritance |-> CountBy([r \in rows.Inheritance |->
            <<KlassContent(d, r.parent), KlassContent(d, r.child), r.order>>])]

(***************************************************************************)
(* The worlds: the runtimes a behaviour may start in                       *)
(***************************************************************************)
DefaultWorld ==
    [roots |-> <<P>>, edges |-> {}, basesB |-> <<"A">>, basesC |-> <<"B">>,
     xA |-> "int1", xB |-> "absent", xC |-> "absent", g |-> "none",
     expA |-> "absent", expP |-> "absent", lazyOn |-> "none",
     lazyFunc |-> "gettext", alias |-> FALSE, rename |-> FALSE]

\* settings.CBV_SOURCES.keys(): z cannot be imported, q is outside package p
RootOptions == {<<P>>, <<PA>>, <<P, PA>>, <<Z, PA>>, <<Q, P>>}

\* Modules held as members besides the submodules: p.a imports p, p.a.b
\* imports p, p imports p.a.b, p.a imports q
EdgeOptions == {"pa_p", "pab_p", "p_pab", "pa_q"}

GraphWorlds ==
    {[DefaultWorld EXCEPT !.roots = r, !.edges = e] :
        r \in RootOptions, e \in SUBSET EdgeOptions}

LatticeWorlds ==
    {[DefaultWorld EXCEPT !.basesB = bb, !.basesC = bc,
                          !.xA = a, !.xB = b, !.xC = c] :
        bb \in {<<"object">>, <<"A">>, <<"U">>},
        bc \in {<<"object">>, <<"A">>, <<"B">>, <<"U">>, <<"B", "U">>},
        a \in {"absent", "int1"},
        b \in {"absent", "int1", "int2"},
        c \in {"absent", "int1"}}

LayoutWorlds ==
    {[DefaultWorld EXCEPT !.g = x, !.basesB = bb] :
        x \in {"in_block", "after_block", "later", "other_file"},
        bb \in {<<"object">>, <<"A">>}}

PathWorlds ==
    {[DefaultWorld EXCEPT !.expA = a, !.expP = b, !.roots = r] :
        a \in {"absent", "class", "other"},
        b \in {"absent", "class", "other"},
        r \in {<<P>>, <<PAB>>}}

LazyWorlds ==
    {[DefaultWorld EXCEPT !.lazyOn = c, !.lazyFunc = f] :
        c \in {"A", "C", "V"}, f \in {"gettext", "reverse", "ngettext"}}

AliasWorlds ==
    {[DefaultWorld EXCEPT !.alias = TRUE, !.roots = r] : r \in {<<P>>, <<PA>>}}

\* p/a/b.py binds its class V under the name W only (W = V; del V): the
\* class keeps __name__ "V" and __module__ "p.a.b"
RenameWorlds ==
    {[DefaultWorld EXCEPT !.rename = TRUE, !.expA = a, !.roots = r] :
        a \in {"absent", "class"}, r \in {<<P>>, <<PAB>>}}

Worlds ==
    GraphWorlds \cup LatticeWorlds \cup LayoutWorlds \cup PathWorlds
        \cup LazyWorlds \cup AliasWorlds \cup RenameWorlds

ReimportWorlds ==
    {DefaultWorld,
     [DefaultWorld EXCEPT !.alias = TRUE],
     [DefaultWorld EXCEPT !.lazyOn = "C", !.lazyFunc = "ngettext"],
     [DefaultWorld EXCEPT !.edges = {"pa_p"}],
     [DefaultWorld EXCEPT !.basesC = <<"B", "U">>, !.xB = "int2", !.xC = "int1",
                          !.g = "in_block", !.expA = "class"]}

DJANGO == <<"D", "j">>
django == <<"d", "j">>

\* project_name / project_version of a run
ProjectArgs ==
    {[project_name |-> n, project_version |-> v] :
        n \in {DJANGO, django}, v \in {"4.2", "5.0"}}

(***************************************************************************)
(* The walker's position                                                   *)
(***************************************************************************)
\* process_modules, first loop: the roots that import, in order
RECURSIVE ImportRoots(_)
ImportRoots(module_paths) ==
    IF module_paths = <<>> THEN <<>>
    ELSE (IF ImportModule(Head(module_paths)) = "ImportError" THEN <<>>
          ELSE <<ImportModule(Head(module_paths))>>)
         \o ImportRoots(Tail(module_paths))

Top == stack[Len(stack)]

\* Whether a _process_member call is due: the second loop of
\* process_modules has a root left, or the innermost _process_submembers
\* loop has a member left
HasCall ==
    /\ phase = "walking"
    /\ IF stack = <<>> THEN rootIdx <= Len(ImportRoots(w.roots))
       ELSE Top.i <= Len(Top.members)

\* The arguments of that call
Call ==
    IF stack = <<>>
    THEN LET module == ImportRoots(w.roots)[rootIdx]
         IN [member |-> module, member_name |-> "", parent |-> "None",
             root_module_name |-> ModuleName(module)]
    ELSE LET pair == Top.members[Top.i]
         IN [member |-> pair[2], member_name |-> pair[1],
             parent |-> Top.parent, root_module_name |-> Top.root]

\* _process_submembers(parent=..., root_module_name=...) entered: the list
\* inspect.getmembers(parent) returned and the position in it
Frame(parent, root_module_name) ==
    <<[parent |-> parent, members |-> Members(w, parent), i |-> 1,
       root |-> root_module_name]>>

\* The store, locals and histories when a run ends, normally or by an
\* exception that leaves import_project_version
Ended(d) ==
    hist' = Append(hist, [args |-> args,
                          left |-> PairContent(d, args.project_name,
                                               args.project_version)])

\* One _process_member call returns: the record it yielded (if any, kept in
\* the history with the object it describes) went
\* through the sink's loop body, the loop that made the call moved on, and
\* the call's own _process_submembers loop (if any) was entered.  raised
\* is the exception of the call itself; a missing key in the sink and the
\* recursion limit raise too.
Step(yielded, entered, raised) ==
    LET r == IF yielded = <<>> THEN Unchanged ELSE Consume(yielded[1].rec)
        exc == IF raised # "none" THEN raised
               ELSE IF r.error # "none" THEN r.error
               ELSE IF entered # <<>> /\ Len(stack) >= RecursionLimit
                    THEN "RecursionError"
               ELSE "none"
    IN /\ db' = r.db
       /\ sink' = r.sink
       /\ nextId' = r.nextId
       /\ stream' = stream \o yielded
       /\ error' = exc
       /\ IF exc = "none"
          THEN /\ phase' = "walking"
               /\ rootIdx' = IF stack = <<>> THEN rootIdx + 1 ELSE rootIdx
               /\ stack' = (IF stack = <<>> THEN <<>>
                            ELSE [stack EXCEPT ![Len(stack)].i = @ + 1])
                           \o entered
               /\ hist' = hist
          ELSE /\ phase' = "failed"
               /\ rootIdx' = rootIdx
               /\ stack' = <<>>
               /\ Ended(r.db)
       /\ UNCHANGED <<w, budget, runs, args>>

(***************************************************************************)
(* Actions                                                                 *)
(***************************************************************************)
Init ==
    /\ w \in Worlds
    /\ budget = 1
    /\ runs = 0
    /\ db = EmptyDb
    /\ nextId = 1
    /\ phase = "idle"
    /\ error = "none"
    /\ args = [project_name |-> DJANGO, project_version |-> "4.2"]
    /\ sink = EmptySink(0)
    /\ rootIdx = 1
    /\ stack = <<>>
    /\ stream = <<>>
    /\ hist = <<>>

InitReimport ==
    /\ w \in ReimportWorlds
    /\ budget = MaxRuns
    /\ runs = 0
    /\ db = EmptyDb
    /\ nextId = 1
    /\ phase = "idle"
    /\ error = "none"
    /\ args = [project_name |-> DJANGO, project_version |-> "4.2"]
    /\ sink = EmptySink(0)
    /\ rootIdx = 1
    /\ stack = <<>>
    /\ stream = <<>>
    /\ hist = <<>>

\* import_project_version up to the loop: the wipe, Project get_or_create,
\* ProjectVersion create, the empty locals; process_modules starts when the
\* loop pulls the first record
StartImport(a) ==
    /\ phase \in {"idle", "done", "failed"}
    /\ runs < budget
    /\ LET d1 == WipeClashingData(db, a.project_name, a.project_version)
           found == {p \in d1.Project : p.name = a.project_name}
           project == IF found = {} THEN nextId
                      ELSE (CHOOSE p \in found : TRUE).id
           d2 == IF found = {}
                 THEN [d1 EXCEPT !.Project = @ \cup
                          {[id |-> nextId, name |-> a.project_name]}]
                 ELSE d1
           pv == IF found = {} THEN nextId + 1 ELSE nextId
       IN /\ db' = [d2 EXCEPT !.ProjectVersion = @ \cup
                       {[id |-> pv, project |-> project,
                         version_number |-> a.project_version]}]
          /\ nextId' = pv + 1
          /\ sink' = EmptySink(pv)
    /\ args' = a
    /\ runs' = runs + 1
    /\ phase' = "walking"
    /\ error' = "none"
    /\ rootIdx' = 1
    /\ stack' = <<>>
    /\ stream' = <<>>
    /\ UNCHANGED <<w, budget, hist>>

\* _process_member, BUILTIN
SkipBuiltin ==
    /\ HasCall
    /\ Kind(Call.member) = "builtin"
    /\ Step(<<>>, <<>>, "none")

\* _process_member MODULE, _handle_module
HandleModule ==
    /\ HasCall
    /\ Kind(Call.member) = "module"
    /\ IF ~StartsWith(ModuleName(Call.member), Call.root_module_name)
       THEN Step(<<>>, <<>>, "none")
       ELSE Step(<<[rec |-> ModuleRecord(Call.member), member |-> Call.member]>>,
                 Frame(Call.member, Call.root_module_name), "none")

\* A check that skips the comparison of the source files.
ClassOnModuleOkNoFile(world, member, parent) ==
    StartsWith(ClassModule(member), ModuleName(parent))

\* _handle_class_on_module, the two early returns
ClassOnModuleOk(world, member, parent) ==
    /\ StartsWith(ClassModule(member), ModuleName(parent))
    /\ Source(world, member).file = Source(world, parent).file

\* _process_member CLASS, _handle_class_on_module
HandleClassOnModule ==
    /\ HasCall
    /\ Kind(Call.member) = "class"
    /\ Kind(Call.parent) = "module"
    /\ IF ~ClassOnModuleOk(w, Call.member, Call.parent)
       THEN Step(<<>>, <<>>, "none")
       ELSE Step(<<[rec |-> KlassRecord(w, Call.member), member |-> Call.member]>>,
                 Frame(Call.member, Call.root_module_name), "none")

\* _process_member METHOD, _handle_function_or_method
HandleFunctionOrMethod ==
    /\ HasCall
    /\ Kind(Call.member) = "function"
    /\ LET member == Unwrap(Call.member)
       IN IF ~OkToAddMethod(w, member, Call.parent)
          THEN Step(<<>>, <<>>, "none")
          ELSE Step(<<[rec |-> MethodRecord(w, member, Call.member_name, Call.parent),
                       member |-> member]>>,
                    <<>>, "none")

\* The members the first four branches of _process_member do not take
IsOther(member, parent) ==
    /\ Kind(member) \notin {"builtin", "module", "function"}
    /\ ~(Kind(member) = "class" /\ Kind(parent) = "module")

\* _process_member (Class) ATTRIBUTE, _handle_class_attribute,
\* LazyAttribute.__init__
HandleClassAttribute ==
    /\ HasCall
    /\ IsOther(Call.member, Call.parent)
    /\ Kind(Call.parent) = "class"
    /\ IF /\ Kind(Call.member) = "promise"
          /\ PromiseReduce(w).func \notin DOMAIN LazyFunctions
       THEN Step(<<>>, <<>>, "ImproperlyConfigured")
       ELSE IF ~OkToAddAttribute(Call.member, Call.member_name, Call.parent)
       THEN Step(<<>>, <<>>, "none")
       ELSE Step(<<[rec |-> KlassAttributeRecord(w, Call.member, Call.member_name,
                                                 Call.parent),
                    member |-> Call.member]>>,
                 <<>>, "none")

\* _process_member, no branch taken
IgnoreMember ==
    /\ HasCall
    /\ IsOther(Call.member, Call.parent)
    /\ Kind(Call.parent) # "class"
    /\ Step(<<>>, <<>>, "none")

\* The for loop of _process_submembers is exhausted
ReturnFromSubmembers ==
    /\ phase = "walking"
    /\ stack # <<>>
    /\ Top.i > Len(Top.members)
    /\ stack' = SubSeq(stack, 1, Len(stack) - 1)
    /\ UNCHANGED <<w, budget, runs, db, nextId, phase, error, args, sink,
                   rootIdx, stream, hist>>

\* The generator is exhausted: Method.objects.bulk_create,
\* create_inheritance, create_attributes
FinishImport ==
    /\ phase = "walking"
    /\ stack = <<>>
    /\ rootIdx > Len(ImportRoots(w.roots))
    /\ LET inheritance_models == CreateInheritance(sink.klasses, sink.klass_models)
           n1 == nextId + Len(sink.method_models)
           n2 == n1 + Len(inheritance_models)
           inh == db.Inheritance \cup BulkCreate(inheritance_models, n1)
           attribute_models == CreateAttributes(sink.attributes, sink.klass_models, inh)
           d == [db EXCEPT
                   !.Method = @ \cup BulkCreate(sink.method_models, nextId),
                   !.Inheritance = inh,
                   !.KlassAttribute = @ \cup BulkCreate(attribute_models, n2)]
       IN /\ db' = d
          /\ nextId' = n2 + Len(attribute_models)
          /\ Ended(d)
    /\ phase' = "done"
    /\ UNCHANGED <<w, budget, runs, error, args, sink, rootIdx, stack, stream>>

Next ==
    \/ \E a \in ProjectArgs : StartImport(a)
    \/ SkipBuiltin
    \/ HandleModule
    \/ HandleClassOnModule
    \/ HandleFunctionOrMethod
    \/ HandleClassAttribute
    \/ IgnoreMember
    \/ ReturnFromSubmembers
    \/ FinishImport

Spec == Init /\ [][Next]_vars

SpecReimport == InitReimport /\ [][Next]_vars

(***************************************************************************)
(* Vocabulary of the properties                                            *)
(***************************************************************************)
StreamIdx(type) == {i \in 1..Len(stream) : stream[i].rec.type = type}

\* The class a canonical path names
ClassOfPath(path) == CHOOSE c \in Classes : FullPath(c) = path

\* The Klass rows written under the ProjectVersion of the current run
RunKlassIds ==
    {k.id : k \in {k \in db.Klass :
        RowById(db.Module, k.module).project_version = sink.project_version}}

\* Transitive closure of the Inheritance rows in the child direction, as a
\* least fixed point
RECURSIVE Closure(_)
Closure(S) ==
    LET more == S \cup {e.child : e \in {e \in db.Inheritance : e.parent \in S}}
    IN IF more = S THEN S ELSE Closure(more)

Descendants(k) == Closure({e.child : e \in {e \in db.Inheritance : e.parent = k}})

\* The union of the descendants of all classes of candidate c's group
GroupDescendants(c) ==
    UNION {Descendants(sink.klass_models[o.klass_path]) :
              o \in {sink.attributes[i] : i \in
                        {i \in 1..Len(sink.attributes) :
                            /\ sink.attributes[i].name = c.name
                            /\ sink.attributes[i].value = c.value}}}

ResolvedRows(c) ==
    {r \in db.KlassAttribute :
        /\ r.klass = sink.klass_models[c.klass_path]
        /\ r.name = c.name
        /\ r.value = c.value
        /\ r.line_number = c.line_number}

Kept(c) == sink.klass_models[c.klass_path] \notin GroupDescendants(c)

\* The discovered classes that carry a resolved record for (name, value)
ResolvedOn(name, value) ==
    {c \in Classes :
        /\ FullPath(c) \in DOMAIN sink.klass_models
        /\ \E r \in db.KlassAttribute :
              /\ r.klass = sink.klass_models[FullPath(c)]
              /\ r.name = name
              /\ r.value = value}

Discovered(c) == FullPath(c) \in DOMAIN sink.klass_models

\* C1: after create_attributes, a candidate (class, line) of a (name, value)
\* group has a resolved KlassAttribute row exactly when its class is not in
\* the union of the transitive descendants of the group's classes, and there
\* is one row per kept candidate.  With A defining x=1 and B(A) inheriting,
\* only A carries x=1 of the two; with B(A) and C(A) inheriting, only A;
\* with B(A) setting x=2, A carries x=1 and B carries x=2; two unrelated
\* classes with the same x=1 both carry it.
C1_ShadowingResolution ==
    phase = "done" =>
        /\ \A i \in 1..Len(sink.attributes) :
              (ResolvedRows(sink.attributes[i]) # {}) <=> Kept(sink.attributes[i])
        /\ Cardinality({r \in db.KlassAttribute : r.klass \in RunKlassIds})
              = Cardinality({i \in 1..Len(sink.attributes) : Kept(sink.attributes[i])})
        /\ (Discovered("A") /\ w.xA = "int1") =>
              /\ (w.basesB = <<"A">> /\ w.xB = "absent") =>
                    /\ "A" \in ResolvedOn("x", <<"1">>)
                    /\ "B" \notin ResolvedOn("x", <<"1">>)
              /\ (w.basesB = <<"A">> /\ w.basesC = <<"A">>
                     /\ w.xB = "absent" /\ w.xC = "absent") =>
                    ResolvedOn("x", <<"1">>) = {"A"}
              /\ (w.basesB = <<"A">> /\ w.xB = "int2") =>
                    /\ "A" \in ResolvedOn("x", <<"1">>)
                    /\ "B" \in ResolvedOn("x", <<"2">>)
              /\ (w.basesB = <<"object">> /\ w.xB = "int1") =>
                    {"A", "B"} \subseteq ResolvedOn("x", <<"1">>)

\* C1 witness: a finished run in which one group had a candidate dropped and
\* a candidate kept
C1_Witness ==
    /\ phase = "done"
    /\ \E i, j \in 1..Len(sink.attributes) :
          /\ sink.attributes[i].name = sink.attributes[j].name
          /\ sink.attributes[i].value = sink.attributes[j].value
          /\ Kept(sink.attributes[i])
          /\ ResolvedRows(sink.attributes[i]) # {}
          /\ ~Kept(sink.attributes[j])
          /\ ResolvedRows(sink.attributes[j]) = {}

\* The rows of every table that hang on the ProjectVersion of the current run
RunRows ==
    LET mods == {r \in db.Module : r.project_version = sink.project_version}
        kls == {r \in db.Klass : r.module \in {m.id : m \in mods}}
        ids == {k.id : k \in kls}
    IN {r \in db.ProjectVersion : r.id = sink.project_version}
         \cup mods \cup kls
         \cup {r \in db.Method : r.klass \in ids}
         \cup {r \in db.KlassAttribute : r.klass \in ids}
         \cup {r \in db.Inheritance : r.parent \in ids \/ r.child \in ids}

\* C2: when a class attribute wraps a lazy function that is not a known one,
\* the run ends with ImproperlyConfigured and the store holds no
\* ProjectVersion, Module, Klass, Method, KlassAttribute or Inheritance row
\* written by this run.
C2_NoPartialRecords ==
    error = "ImproperlyConfigured" => RunRows = {}

\* The store holds no row whose foreign key points at a deleted row
NoDanglingRows ==
    /\ \A r \in db.ProjectVersion : \E p \in db.Project : p.id = r.project
    /\ \A r \in db.Module : \E v \in db.ProjectVersion : v.id = r.project_version
    /\ \A r \in db.Klass : \E m \in db.Module : m.id = r.module
    /\ \A r \in db.Method \cup db.KlassAttribute : \E k \in db.Klass : k.id = r.klass
    /\ \A r \in db.Inheritance :
          /\ \E k \in db.Klass : k.id = r.parent
          /\ \E k \in db.Klass : k.id = r.child

\* C3: a run for the same (project name, version) as the run before it
\* leaves the same rows for that pair (same contents, same multiplicities) as
\* the run before left; and from the wipe on, the only ProjectVersion of the
\* pair, the name compared case-insensitively, is the one this run created,
\* with no row left hanging on a deleted one.
C3_IdempotentReimport ==
    /\ \A i \in 2..Len(hist) :
          hist[i].args = hist[i - 1].args => hist[i].left = hist[i - 1].left
    /\ runs > 0 =>
          /\ {v.id : v \in VersionsOf(db, args.project_name, args.project_version)}
                = {sink.project_version}
          /\ NoDanglingRows

\* C3 witness: three finished runs, the first under a name that differs from
\* the second's only by case, the third with the second's arguments, and
\* rows written
C3_Witness ==
    /\ Len(hist) = 3
    /\ hist[1].args.project_name # hist[2].args.project_name
    /\ hist[1].args.project_version = hist[2].args.project_version
    /\ hist[2].args = hist[3].args
    /\ DOMAIN hist[1].left.Klass # {}
    /\ DOMAIN hist[3].left.Klass # {}
    /\ DOMAIN hist[3].left.KlassAttribute # {}

\* The class whose source block holds the function's first line, if any:
\* where the function is physically written.
WrittenIn(world, fn) ==
    {c \in Classes :
        /\ Source(world, c).file = Source(world, fn).file
        /\ Source(world, c).start <= Source(world, fn).start
        /\ Source(world, fn).start <= Source(world, c).start + Source(world, c).count - 1}

\* C4: a Method record with klass_path = B is yielded only for a callable
\* whose source file is B's and whose start line lies in
\* [B's start line, B's start line + B's line count), and never for a
\* callable written in the source block of another class.
C4_MethodOwnership ==
    \A i \in StreamIdx("Method") :
        LET B == ClassOfPath(stream[i].rec.klass_path)
            fn == stream[i].member
        IN /\ Source(w, fn).file = Source(w, B).file
           /\ Source(w, B).start <= Source(w, fn).start
           /\ Source(w, fn).start < Source(w, B).start + Source(w, B).count
           /\ WrittenIn(w, fn) \subseteq {B}

\* a is b, or b up to (not including) one of its dots
IsDottedPrefixOrEqual(a, b) ==
    \/ a = b
    \/ /\ Len(a) < Len(b)
       /\ SubSeq(b, 1, Len(a)) = a
       /\ b[Len(a) + 1] = "."

\* The proper dotted prefixes of a module path
ProperPrefixes(path) ==
    {SubSeq(path, 1, i - 1) : i \in {i \in 1..Len(path) : path[i] = "."}}

\* The same-class check at a path: the module imported there holds klass
\* under klass's simple name
Exposes(path, klass) ==
    /\ ImportModule(path) # "ImportError"
    /\ ModuleGetattr(w, ImportModule(path), ClassName(klass)) = klass

\* C5 as stated: the best import path of every discovered class is its
\* defining module path or a dotted-component prefix of it, and the module
\* imported at that path holds the identical class under the class's simple
\* name.
C5_BestImportPath ==
    \A i \in StreamIdx("Klass") :
        /\ IsDottedPrefixOrEqual(stream[i].rec.best_import_path, stream[i].rec.module)
        /\ Exposes(stream[i].rec.best_import_path, stream[i].member)

\* C5 as the code behaves: the best import path of every discovered class is
\* its defining module path or a dotted-component prefix of it; a returned
\* proper prefix names a module that holds the identical class under the
\* class's simple name, while the defining module path itself is returned
\* without that lookup.
C5_CheckedPrefixOrModulePath ==
    \A i \in StreamIdx("Klass") :
        /\ IsDottedPrefixOrEqual(stream[i].rec.best_import_path, stream[i].rec.module)
        /\ \/ stream[i].rec.best_import_path = stream[i].rec.module
           \/ Exposes(stream[i].rec.best_import_path, stream[i].member)

\* C5 witness: a discovered class whose best import path is a proper prefix
\* of its module path
C5_Witness ==
    \E i \in StreamIdx("Klass") :
        stream[i].rec.best_import_path \in ProperPrefixes(stream[i].rec.module)

\* C6: every Klass record of the stream comes after a Module record named
\* like its module field, every Method and KlassAttribute record after a
\* Klass record whose path is its klass_path, and the sink's dictionary
\* lookups never raise KeyError.
C6_DependencyOrder ==
    /\ \A i \in StreamIdx("Klass") :
          \E j \in 1..(i - 1) :
              /\ stream[j].rec.type = "Module"
              /\ stream[j].rec.name = stream[i].rec.module
    /\ \A i \in StreamIdx("Method") \cup StreamIdx("KlassAttribute") :
          \E j \in 1..(i - 1) :
              /\ stream[j].rec.type = "Klass"
              /\ stream[j].rec.path = stream[i].rec.klass_path
    /\ error # "KeyError"

\* C6 witness: a finished run whose stream held classes of two modules, a
\* method and an attribute candidate, all written through the lookups
C6_Witness ==
    /\ phase = "done"
    /\ StreamIdx("Method") # {}
    /\ StreamIdx("KlassAttribute") # {}
    /\ Cardinality({stream[i].rec.module : i \in StreamIdx("Klass")}) > 1
    /\ Cardinality(db.Method) = Cardinality(StreamIdx("Method"))

\* C7: the stream of one run holds at most one Module record per module name
\* and at most one Klass record per canonical path.
C7_UniqueRecords ==
    \A i, j \in 1..Len(stream) :
        i < j =>
            /\ ~(/\ stream[i].rec.type = "Module"
                 /\ stream[j].rec.type = "Module"
                 /\ stream[i].rec.name = stream[j].rec.name)
            /\ ~(/\ stream[i].rec.type = "Klass"
                 /\ stream[j].rec.type = "Klass"
                 /\ stream[i].rec.path = stream[j].rec.path)

\* C8: the walk is finite: the traversal never descends without end.  An
\* endless descent is what runs into the interpreter's recursion limit; the
\* acyclic nestings of this runtime stay below it.
C8_FiniteWalk ==
    error # "RecursionError"

\* C9: after resolution, a discovered class carries a resolved record for
\* (x, value) exactly when its own body introduces x with that value.
C9_IntroducingClasses ==
    phase = "done" =>
        \A c \in {c \in Classes : Discovered(c)} :
            \A value \in {<<"1">>, <<"2">>} :
                (c \in ResolvedOn("x", value))
                    <=> /\ OwnAttr(w, c, "x") # "absent"
                        /\ GetValue(w, OwnAttr(w, c, "x")) = value

\* C10 as stated: the search ends at the first failing prefix, so every
\* proper prefix of the module path that is at least as long as the
\* returned path passes the same-class check.
C10_StopsAtFirstFailure ==
    \A i \in StreamIdx("Klass") :
        \A q \in ProperPrefixes(stream[i].rec.module) :
            Len(q) >= Len(stream[i].rec.best_import_path)
                => Exposes(q, stream[i].member)

\* C10 as the code behaves: every proper prefix is checked, failing ones included, and
\* the returned path is the shortest proper prefix that passes the check,
\* or the full module path when none passes.
C10_ShortestPassingPrefix ==
    \A i \in StreamIdx("Klass") :
        LET passing == {q \in ProperPrefixes(stream[i].rec.module) :
                           Exposes(q, stream[i].member)}
            best == stream[i].rec.best_import_path
        IN IF passing = {} THEN best = stream[i].rec.module
           ELSE /\ best \in passing
                /\ \A q \in passing : Len(best) <= Len(q)

\* C10 witness: a discovered class whose returned path is shorter than a
\* prefix that fails the check
C10_Witness ==
    \E i \in StreamIdx("Klass") :
        \E q \in ProperPrefixes(stream[i].rec.module) :
            /\ ~Exposes(q, stream[i].member)
            /\ Len(stream[i].rec.best_import_path) < Len(q)

====
